---- MODULE Spec2Model ----
(***************************************************************************)
(* update_layout.py: read activity_main.xml, apply five re.sub rules in    *)
(* order to the text, write the text back, print a confirmation.           *)
(*                                                                         *)
(* A document is a sequence of tokens.  Every literal the five patterns    *)
(* look for (and every literal they write) is one token; the whitespace    *)
(* characters \s+ of rule 5 can run over are modelled one token per        *)
(* character, so that the "\n" + eight spaces of the replacement template  *)
(* is exact.  No token is a substring of, or overlaps, another one, so a   *)
(* regex match on the text is a match on the token sequence.               *)
(***************************************************************************)
EXTENDS Integers, Sequences, FiniteSets, TLC

\* ------------------------------------------------------------------ bounds
\* Longest input document of the transform specification, in chunks.
MaxLen ==
  3
\* Longest input file of the file-access specification, in chunks.
MaxFileLen ==
  3

\* ------------------------------------------------------------------ tokens
\* Identifier attributes: a cell other than (2,2), the FREE cell, the button,
\* and an identifier no pattern names (a header).
CELL ==
  "android:id=\"@+id/cell_0_0\""
CELL22 ==
  "android:id=\"@+id/cell_2_2\""
BTN ==
  "android:id=\"@+id/actionButton\""
HDR ==
  "android:id=\"@+id/header_b\""
\* The end of one element and the start of the next one.
ELEM ==
  "/> <TextView"
TS18 ==
  "android:textSize=\"18sp\""
TS16 ==
  "android:textSize=\"16sp\""
M2 ==
  "android:layout_margin=\"2dp\""
MS32 ==
  "android:layout_marginStart=\"32dp\""
ME32 ==
  "android:layout_marginEnd=\"32dp\""
MB24 ==
  "android:layout_marginBottom=\"24dp\""
SP ==
  " "
LF ==
  "\n"
CR ==
  "\r"
\* A byte sequence that is not valid UTF-8.
BAD ==
  "<0xFF>"
\* What the rules write.
TSCELL ==
  "android:textSize=\"@dimen/bingo_cell_text_size\""
MCELL ==
  "android:layout_margin=\"@dimen/cell_margin\""
TSFREE ==
  "android:textSize=\"@dimen/bingo_free_text_size\""
TSBTN ==
  "android:textSize=\"@dimen/button_text_size\""
MSH ==
  "android:layout_marginStart=\"@dimen/button_margin_horizontal\""
MEH ==
  "android:layout_marginEnd=\"@dimen/button_margin_horizontal\""
MBB ==
  "android:layout_marginBottom=\"@dimen/button_margin_bottom\""

\* cell_\d+_\d+" : every cell identifier, the FREE cell's included.
CellIds ==
  {CELL, CELL22}
\* \s : the whitespace characters of a decoded text.
White ==
  {SP, LF}

\* ----------------------------------------------------------------- helpers
Min(S) ==
  CHOOSE x \in S : \A y \in S : x <= y
Max(S) ==
  CHOOSE x \in S : \A y \in S : x >= y
Count(doc, t) ==
  Cardinality({k \in DOMAIN doc : doc[k] = t})
RECURSIVE Flat(_)
Flat(ss) ==
  IF ss = <<>> THEN <<>> ELSE Head(ss) \o Flat(Tail(ss))

\* ------------------------------------------------------------- the regexes
\* start[\s\S]*?target has a match in doc.
HasLazyMatch(doc, starts, target) ==
  \E i \in DOMAIN doc : \E j \in DOMAIN doc :
    i < j /\ doc[i] \in starts /\ doc[j] = target

\* SubLazy with a fault: [\s\S]* greedy, the match runs to the LAST target.
SubGreedy(doc, pos, starts, target, repl) ==
  LET S == {i \in pos..Len(doc) :
              doc[i] \in starts /\ \E j \in (i+1)..Len(doc) : doc[j] = target}
  IN  IF S = {} THEN doc
      ELSE [doc EXCEPT ![Max({j \in DOMAIN doc : doc[j] = target})] = repl]

\* re.sub(r'(start[\s\S]*?)target', r'\1repl', doc), scanning from pos: the
\* leftmost start that has a target after it, lazily extended to the first
\* such target; group 1 is written back, the target becomes repl, and the
\* search goes on after the match.
RECURSIVE SubLazy(_, _, _, _, _)
SubLazy(doc, pos, starts, target, repl) ==
  LET S == {i \in pos..Len(doc) :
              doc[i] \in starts /\ \E j \in (i+1)..Len(doc) : doc[j] = target}
  IN  IF S = {} THEN doc
      ELSE LET i == Min(S)
               j == Min({k \in (i+1)..Len(doc) : doc[k] = target})
           IN  SubLazy([doc EXCEPT ![j] = repl], j + 1, starts, target, repl)

\* Rule1 with a fault: the pattern without its identifier prefix.
Rule1Unanchored(doc) ==
  [k \in DOMAIN doc |-> IF doc[k] = TS18 THEN TSCELL ELSE doc[k]]

\* Rule 1
Rule1(doc) ==
  SubLazy(doc, 1, CellIds, TS18, TSCELL)
HasMatch1(doc) ==
  HasLazyMatch(doc, CellIds, TS18)

\* Rule2 with a fault: count=1, only the first occurrence.
Rule2First(doc) ==
  LET S == {k \in DOMAIN doc : doc[k] = M2}
  IN  IF S = {} THEN doc ELSE [doc EXCEPT ![Min(S)] = MCELL]

\* Rule 2: every occurrence of the literal.
Rule2(doc) ==
  [k \in DOMAIN doc |-> IF doc[k] = M2 THEN MCELL ELSE doc[k]]
HasMatch2(doc) ==
  \E k \in DOMAIN doc : doc[k] = M2

\* Rule 3
Rule3(doc) ==
  SubLazy(doc, 1, {CELL22}, TS16, TSFREE)
HasMatch3(doc) ==
  HasLazyMatch(doc, {CELL22}, TS16)

\* Rule4 with a fault: the replacement without \1, the matched prefix is lost.
Rule4NoGroup(doc) ==
  IF HasLazyMatch(doc, {BTN}, TS16)
  THEN LET i == Min({k \in DOMAIN doc : doc[k] = BTN
                        /\ \E j \in (k+1)..Len(doc) : doc[j] = TS16})
           j == Min({k \in (i+1)..Len(doc) : doc[k] = TS16})
       IN  SubSeq(doc, 1, i - 1) \o <<TSBTN>> \o SubSeq(doc, j + 1, Len(doc))
  ELSE doc

\* Rule 4
Rule4(doc) ==
  SubLazy(doc, 1, {BTN}, TS16, TSBTN)
HasMatch4(doc) ==
  HasLazyMatch(doc, {BTN}, TS16)

\* The first position at or after k that holds no whitespace.
RECURSIVE SkipWhite(_, _)
SkipWhite(doc, k) ==
  IF k <= Len(doc) /\ doc[k] \in White THEN SkipWhite(doc, k + 1) ELSE k

\* Where the match of rule 5's pattern that starts at i ends; 0 when none
\* starts there.  \s+ needs at least one whitespace character.
BlockEnd(doc, i) ==
  IF doc[i] # MS32 THEN 0
  ELSE LET a == SkipWhite(doc, i + 1)
       IN  IF ~(a > i + 1 /\ a <= Len(doc) /\ doc[a] = ME32) THEN 0
           ELSE LET b == SkipWhite(doc, a + 1)
                IN  IF b > a + 1 /\ b <= Len(doc) /\ doc[b] = MB24 THEN b ELSE 0
HasMatch5(doc) ==
  \E i \in DOMAIN doc : BlockEnd(doc, i) > 0

\* BlockRepl with a fault: an indentation of four spaces.
BlockReplFour ==
  <<MSH, LF, SP, SP, SP, SP, MEH, LF, SP, SP, SP, SP, MBB>>

\* Rule 5's replacement template: the \n of the template is a newline.
BlockRepl ==
  <<MSH, LF, SP, SP, SP, SP, SP, SP, SP, SP,
    MEH, LF, SP, SP, SP, SP, SP, SP, SP, SP, MBB>>

\* SubBlock with a fault: count=1, only the first block.
SubBlockFirst(doc, pos) ==
  LET S == {i \in pos..Len(doc) : BlockEnd(doc, i) > 0}
  IN  IF S = {} THEN SubSeq(doc, pos, Len(doc))
      ELSE SubSeq(doc, pos, Min(S) - 1) \o BlockRepl
             \o SubSeq(doc, BlockEnd(doc, Min(S)) + 1, Len(doc))

\* re.sub of rule 5 from pos on: every non-overlapping match, left to right.
RECURSIVE SubBlock(_, _)
SubBlock(doc, pos) ==
  IF pos > Len(doc) THEN <<>>
  ELSE IF BlockEnd(doc, pos) > 0
       THEN BlockRepl \o SubBlock(doc, BlockEnd(doc, pos) + 1)
       ELSE <<doc[pos]>> \o SubBlock(doc, pos + 1)

\* Rule 5
Rule5(doc) ==
  SubBlock(doc, 1)

\* The five rules in order, each on the result of the one before.
Transform(doc) ==
  Rule5(Rule4(Rule3(Rule2(Rule1(doc)))))

\* ---------------------------------------------------------------- the file
\* open(..., 'r', encoding='utf-8').read(): universal newlines, "\r\n" and a
\* lone "\r" are read as "\n".
RECURSIVE Decode(_)
Decode(b) ==
  IF b = <<>> THEN <<>>
  ELSE IF Head(b) = CR
       THEN IF Len(b) >= 2 /\ b[2] = LF
            THEN <<LF>> \o Decode(SubSeq(b, 3, Len(b)))
            ELSE <<LF>> \o Decode(Tail(b))
       ELSE <<Head(b)>> \o Decode(Tail(b))

\* open(..., 'w', encoding='utf-8').write(): every "\n" is written as the
\* platform's line separator sep.
RECURSIVE Encode(_, _)
Encode(t, sep) ==
  IF t = <<>> THEN <<>>
  ELSE (IF Head(t) = LF THEN sep ELSE <<Head(t)>>) \o Encode(Tail(t), sep)

\* os.linesep
LineSeps ==
  {<<LF>>, <<CR, LF>>}

\* ------------------------------------------------------------------- state
VARIABLES
  file,      \* the bytes of activity_main.xml on disk
  file0,     \* ... when the run started
  linesep,   \* the platform's line separator
  content,   \* the script's variable content
  inp,       \* content as the current run read it
  prev,      \* content before the last re.sub
  orig,      \* content as the first run read it
  pass,      \* 1: the first run of the script, 2: a second run on its output
  pc,        \* the statement the script is at
  err,       \* the statement that raised, "" when none did
  printed    \* how many times the confirmation was printed in this run
vars ==
  <<file, file0, linesep, content, inp, prev, orig, pass, pc, err, printed>>

\* ------------------------------------------------------------------ inputs
\* What input documents are built of: each literal a pattern names, the
\* attributes of a cell as the layout writes them (identifier, margin, text
\* size), the button's margin block with different whitespace runs, and a
\* block that lacks the whitespace between its first two attributes.
Chunks ==
  { <<CELL>>, <<CELL22>>, <<BTN>>, <<HDR>>, <<ELEM>>, <<TS18>>, <<TS16>>, <<M2>>,
    <<CELL, M2, TS18>>,
    <<MS32, SP, ME32, SP, MB24>>,
    <<MS32, LF, SP, SP, ME32, LF, SP, MB24>>,
    <<MS32, ME32, SP, MB24>> }
Docs ==
  {Flat(s) : s \in UNION {[1..n -> Chunks] : n \in 0..MaxLen}}

\* What input files are built of: literals, line endings, an undecodable byte.
FileChunks ==
  { <<CELL>>, <<TS18>>, <<M2>>, <<HDR>>, <<CR>>, <<LF>>, <<BAD>> }
Files ==
  {Flat(s) : s \in UNION {[1..n -> FileChunks] : n \in 0..MaxFileLen}}

\* ----------------------------------------------------------------- actions
\* OpenRead with a fault: the file is opened in a mode that truncates it.
OpenReadTrunc ==
  /\ pc = "open_r"
  /\ pc' = "read"
  /\ file' = <<>>
  /\ UNCHANGED <<file0, linesep, content, inp, prev, orig, pass, err, printed>>
\* line 4: open for reading succeeds.
OpenRead ==
  /\ pc = "open_r"
  /\ pc' = "read"
  /\ UNCHANGED <<file, file0, linesep, content, inp, prev, orig, pass, err, printed>>

\* line 4: open for reading raises (no such file, permission denied).
OpenReadFail ==
  /\ pc = "open_r"
  /\ pc' = "failed"
  /\ err' = "open_r"
  /\ UNCHANGED <<file, file0, linesep, content, inp, prev, orig, pass, printed>>

\* line 5: the whole file is read and decoded.
Read ==
  /\ pc = "read"
  /\ \A k \in DOMAIN file : file[k] # BAD
  /\ content' = Decode(file)
  /\ inp' = content'
  /\ prev' = content'
  /\ orig' = content'
  /\ pc' = "rule1"
  /\ UNCHANGED <<file, file0, linesep, pass, err, printed>>

\* line 5: the read raises (an I/O error, or bytes that are not UTF-8).
ReadFail ==
  /\ pc = "read"
  /\ pc' = "failed"
  /\ err' = "read"
  /\ UNCHANGED <<file, file0, linesep, content, inp, prev, orig, pass, printed>>

\* One re.sub statement: content = rule(content).
Step(at, next, result) ==
  /\ pc = at
  /\ prev' = content
  /\ content' = result
  /\ pc' = next
  /\ UNCHANGED <<file, file0, linesep, inp, orig, pass, err, printed>>
\* lines 9-13
DoRule1 ==
  Step("rule1", "rule2", Rule1(content))
\* lines 16-20
DoRule2 ==
  Step("rule2", "rule3", Rule2(content))
\* lines 23-27
DoRule3 ==
  Step("rule3", "rule4", Rule3(content))
\* lines 30-34
DoRule4 ==
  Step("rule4", "rule5", Rule4(content))
\* lines 36-40
DoRule5 ==
  Step("rule5", "open_w", Rule5(content))

\* line 43: open for writing succeeds and truncates the file.
OpenWrite ==
  /\ pc = "open_w"
  /\ file' = <<>>
  /\ pc' = "write"
  /\ UNCHANGED <<file0, linesep, content, inp, prev, orig, pass, err, printed>>

\* line 43: open for writing raises; the file is not touched.
OpenWriteFail ==
  /\ pc = "open_w"
  /\ pc' = "failed"
  /\ err' = "open_w"
  /\ UNCHANGED <<file, file0, linesep, content, inp, prev, orig, pass, printed>>

\* line 44: the text is encoded, written and flushed at the end of the with.
Write ==
  /\ pc = "write"
  /\ file' = Encode(content, linesep)
  /\ pc' = "print"
  /\ UNCHANGED <<file0, linesep, content, inp, prev, orig, pass, err, printed>>

\* WriteFail with a fault: the error is swallowed and the script goes on.
WriteFailSwallowed ==
  /\ pc = "write"
  /\ \E n \in 0..Len(Encode(content, linesep)) :
       file' = SubSeq(Encode(content, linesep), 1, n)
  /\ pc' = "print"
  /\ err' = "write"
  /\ UNCHANGED <<file0, linesep, content, inp, prev, orig, pass, printed>>

\* line 44: the write or the flush raises after n tokens reached the disk.
WriteFail ==
  /\ pc = "write"
  /\ \E n \in 0..Len(Encode(content, linesep)) :
       file' = SubSeq(Encode(content, linesep), 1, n)
  /\ pc' = "failed"
  /\ err' = "write"
  /\ UNCHANGED <<file0, linesep, content, inp, prev, orig, pass, printed>>

\* line 46
Confirm ==
  /\ pc = "print"
  /\ printed' = printed + 1
  /\ pc' = "done"
  /\ UNCHANGED <<file, file0, linesep, content, inp, prev, orig, pass, err>>

\* The first run's lines 43-46 succeed and the script is run a second time,
\* whose lines 4-5 succeed: the text is written, and read back.
Rerun ==
  /\ pc = "open_w"
  /\ pass = 1
  /\ pass' = 2
  /\ file' = Encode(content, linesep)
  /\ file0' = file'
  /\ content' = Decode(file')
  /\ inp' = content'
  /\ prev' = content'
  /\ pc' = "rule1"
  /\ UNCHANGED <<linesep, orig, err, printed>>

\* ---------------------------------------------------------- specifications
\* The transform: the script past its read, on every document of Docs, and a
\* second run on what the first one wrote.
Init ==
  /\ content \in Docs
  /\ inp = content
  /\ prev = content
  /\ orig = content
  /\ linesep \in LineSeps
  /\ file = Encode(content, linesep)
  /\ file0 = file
  /\ pass = 1
  /\ pc = "rule1"
  /\ err = ""
  /\ printed = 0
Next ==
  \/ DoRule1
  \/ DoRule2
  \/ DoRule3
  \/ DoRule4
  \/ DoRule5
  \/ Rerun
Spec ==
  Init /\ [][Next]_vars

\* One run of the script with its file accesses, on every file of Files.
InitIO ==
  /\ file \in Files
  /\ file0 = file
  /\ linesep \in LineSeps
  /\ content = <<>>
  /\ inp = <<>>
  /\ prev = <<>>
  /\ orig = <<>>
  /\ pass = 1
  /\ pc = "open_r"
  /\ err = ""
  /\ printed = 0
NextIO ==
  \/ OpenRead
  \/ OpenReadFail
  \/ Read
  \/ ReadFail
  \/ DoRule1
  \/ DoRule2
  \/ DoRule3
  \/ DoRule4
  \/ DoRule5
  \/ OpenWrite
  \/ OpenWriteFail
  \/ Write
  \/ WriteFail
  \/ Confirm
SpecIO ==
  InitIO /\ [][NextIO]_vars

\* ------------------------------------------------------------------ claims
\* The matches of rule 5's pattern in doc, by where they start.
Blocks(doc) ==
  {i \in DOMAIN doc : BlockEnd(doc, i) > 0}
\* The three references, a newline and exactly eight spaces between them.
Template ==
  <<MSH, LF, SP, SP, SP, SP, SP, SP, SP, SP,
    MEH, LF, SP, SP, SP, SP, SP, SP, SP, SP, MBB>>
Templates(doc) ==
  {i \in DOMAIN doc : i + 20 <= Len(doc) /\ SubSeq(doc, i, i + 20) = Template}
\* doc with each three-margin block, replaced or not, folded into one mark.
RECURSIVE Fold(_, _)
Fold(doc, pos) ==
  IF pos > Len(doc) THEN <<>>
  ELSE IF pos \in Blocks(doc)
       THEN <<"<block>">> \o Fold(doc, BlockEnd(doc, pos) + 1)
       ELSE IF pos \in Templates(doc)
            THEN <<"<block>">> \o Fold(doc, pos + 21)
            ELSE <<doc[pos]>> \o Fold(doc, pos + 1)
NotMargin(t) ==
  t \notin {MS32, ME32, MB24, MSH, MEH, MBB, SP, LF}
\* doc without the margin attributes of the block and without whitespace.
Strip(doc) ==
  SelectSeq(doc, NotMargin)
\* The first target after position i.
FirstAfter(doc, i, target) ==
  Min({j \in (i+1)..Len(doc) : doc[j] = target})
NoMatchAny(doc) ==
  /\ ~HasMatch1(doc)
  /\ ~HasMatch2(doc)
  /\ ~HasMatch3(doc)
  /\ ~HasMatch4(doc)
  /\ ~HasMatch5(doc)
\* Position j lies in an element that carries a cell identifier: no element
\* boundary stands between j and some cell identifier.
InCellElement(doc, j) ==
  \E i \in DOMAIN doc :
    /\ doc[i] \in CellIds
    /\ \A k \in DOMAIN doc :
         (k >= Min({i, j}) /\ k <= Max({i, j})) => doc[k] # ELEM

\* C1: after the five rules no android:layout_margin="2dp" is left, and there
\* are as many more android:layout_margin="@dimen/cell_margin" as the input
\* had android:layout_margin="2dp"; rule 2 itself replaces each one in place.
C1_EveryMarginReplaced ==
  /\ pc = "rule3" =>
       \A k \in DOMAIN prev : prev[k] = M2 => content[k] = MCELL
  /\ pc = "open_w" =>
       /\ Count(content, M2) = 0
       /\ Count(content, MCELL) = Count(inp, MCELL) + Count(inp, M2)
C1_Witness ==
  /\ pc = "open_w"
  /\ pass = 1
  /\ Count(inp, M2) >= 2
  /\ HasMatch1(inp)

C3_SecondRunNoOp ==
  (pass = 2 /\ pc = "open_w") => content = inp
\* C3 as amended: in a second run rule 2 and rule 5 find nothing to replace,
\* and the run changes nothing but android:textSize="18sp" / "16sp" values
\* the first run left in place.
C3_SecondRunSizesOnly ==
  pass = 2 =>
    /\ pc = "rule3" => content = prev
    /\ pc = "open_w" =>
         /\ content = prev
         /\ Len(content) = Len(inp)
         /\ \A k \in DOMAIN inp :
              content[k] # inp[k] => inp[k] \in {TS18, TS16}
C3_Witness ==
  /\ pass = 2
  /\ pc = "open_w"
  /\ HasMatch1(orig)
  /\ HasMatch2(orig)
  /\ HasMatch5(orig)

\* C4 as stated: rule 5 replaces the first three-margin block only, and a
\* later block is left as it was.
C4_FirstBlockOnly ==
  pc = "open_w" => content = SubBlockFirst(prev, 1)
\* C4 as amended: rule 5 replaces every three-margin block by the three
\* references separated by a newline and exactly eight spaces; no block is
\* left, and nothing outside the blocks changes.
C4_EveryBlock ==
  pc = "open_w" =>
    /\ ~HasMatch5(content)
    /\ Cardinality(Templates(content)) =
         Cardinality(Templates(prev)) + Cardinality(Blocks(prev))
    /\ Count(content, MSH) = Count(prev, MSH) + Cardinality(Blocks(prev))
    /\ Count(content, MEH) = Count(prev, MEH) + Cardinality(Blocks(prev))
    /\ Count(content, MBB) = Count(prev, MBB) + Cardinality(Blocks(prev))
    /\ Fold(content, 1) = Fold(prev, 1)
C4_Witness ==
  /\ pc = "open_w"
  /\ pass = 1
  /\ Cardinality(Blocks(prev)) >= 2

C6_NoPartialWrite ==
  pc = "failed" =>
    \/ file = file0
    \/ file = Encode(Transform(Decode(file0)), linesep)
\* C6 as amended: the file is not touched before it is opened for writing,
\* which is after the read and the five rules; a run that fails at the read
\* or at opening the file for writing leaves the original content in place;
\* a run that fails at the write leaves a prefix of the transformed content.
C6_FileKeptUntilWrite ==
  /\ pc \in {"open_r", "read", "rule1", "rule2", "rule3", "rule4", "rule5",
             "open_w"} => file = file0
  /\ (pc = "failed" /\ err \in {"open_r", "read", "open_w"}) => file = file0
  /\ (pc = "failed" /\ err = "write") =>
       \E n \in 0..Len(Encode(content, linesep)) :
         file = SubSeq(Encode(content, linesep), 1, n)
C6_Witness ==
  /\ pc = "failed"
  /\ err = "open_w"
  /\ content # inp
  /\ file = file0

\* C7: the confirmation is printed at most once, and only when the read, the
\* five rules and the write have all succeeded; a failed run never prints.
C7_ConfirmOnlyAfterSuccess ==
  /\ printed <= 1
  /\ printed = 1 =>
       /\ pc = "done"
       /\ err = ""
       /\ content = Transform(Decode(file0))
       /\ file = Encode(content, linesep)
  /\ (pc = "failed" \/ err # "") => printed = 0
C7_Witness ==
  /\ printed = 1
  /\ content # inp

C9_ButtonSize ==
  (pc = "open_w" /\ pass = 1) =>
    LET a == Strip(inp)
        b == Strip(content)
    IN  \A i \in DOMAIN a :
          (a[i] = BTN /\ \E j \in (i+1)..Len(a) : a[j] = TS16) =>
            b[FirstAfter(a, i, TS16)] = TSBTN

\* C10: rule 1 gives @dimen/bingo_cell_text_size only to an
\* android:textSize="18sp" of an element that carries a cell identifier.
C10_CellsOnly ==
  (pc = "rule2" /\ pass = 1) =>
    \A j \in DOMAIN prev :
      (prev[j] = TS18 /\ content[j] = TSCELL) => InCellElement(prev, j)

====
